---- MODULE Spec2Model ----
(***************************************************************************)
(* Model of spi.cpp: a calculator made of a Lexer, a recursive-descent     *)
(* Parser building an AST, and an Interpreter walking the AST.             *)
(*                                                                         *)
(* A text is a sequence of characters; a character is a one-element string *)
(* ("2", "+", " "), the characters without a TLA+ escape being named (NUL  *)
(* for the character of value 0, VT for the vertical tab).                 *)
(***************************************************************************)
EXTENDS Integers, Sequences, FiniteSets, TLC

(* ------------------------------ bounds --------------------------------- *)
\* every text of at most MaxLen characters over Alphabet is an input
MaxLen == 3
\* longest run of one repeated digit among the literal inputs
MaxDigits == 11
\* number of direct get_next_token calls a client of the Lexer makes
MaxCalls == 6

(* ------------------------- characters and int -------------------------- *)
NUL == "NUL"
VT == "VT"
\* largest value of the type int (Token::value, the result of std::stoi)
IntMax == 2147483647
IntMin == -IntMax - 1

\* variant of isspace: only the blank is whitespace
isspaceBlankOnly(c) == c = " "

\* <cctype> isspace in the "C" locale
isspace(c) == c \in {" ", "\t", "\n", VT, "\f", "\r"}
\* <cctype> isdigit
isdigit(c) == c \in {"0", "1", "2", "3", "4", "5", "6", "7", "8", "9"}
DigitValue(c) ==
  CASE c = "0" -> 0 [] c = "1" -> 1 [] c = "2" -> 2 [] c = "3" -> 3
    [] c = "4" -> 4 [] c = "5" -> 5 [] c = "6" -> 6 [] c = "7" -> 7
    [] c = "8" -> 8 [] c = "9" -> 9

(* ------------------------------- Token --------------------------------- *)
\* Token(type, value = 0)
Token(type, value) == [type |-> type, value |-> value]
\* the characters of the switch in get_next_token and their token types
OperatorChars == {"+", "-", "*", "/", "(", ")"}
OperatorType(c) ==
  CASE c = "+" -> "PlusToken" [] c = "-" -> "MinusToken"
    [] c = "*" -> "MultiplyToken" [] c = "/" -> "DivideToken"
    [] c = "(" -> "LParenToken" [] c = ")" -> "RParenToken"
\* placeholder of a Token member that no constructor has set yet
NoToken == Token("None", 0)

(* ------------------------------- Lexer --------------------------------- *)
\* A Lexer (or any record holding one) has the fields text, position,
\* currentChar, and lastRead: the index of the latest text[...] read.

\* text[i] for a 0-based i; text[length] is the terminating '\0' of a
\* std::string.  Indices beyond that are never read (LexerInBounds).
TextAt(txt, i) == IF i < Len(txt) THEN txt[i + 1] ELSE NUL

\* position > text.length() - 1 in size_t: for the empty text the right
\* side wraps around to SIZE_MAX, which no position exceeds
PastLastChar(p, txt) == IF Len(txt) = 0 THEN FALSE ELSE p > Len(txt) - 1

\* F(v) with the argument evaluated before the call, as C++ passes it
ByValue(F(_), v) == CHOOSE r \in {F(t) : t \in {v}} : TRUE

\* Lexer::advance
Advance(lx) ==
  LET p == lx.position + 1 IN
  IF PastLastChar(p, lx.text)
    THEN [lx EXCEPT !.position = p, !.currentChar = NUL]
    ELSE [lx EXCEPT !.position = p, !.currentChar = TextAt(lx.text, p),
                    !.lastRead = p]

\* Lexer::skip_whitespace
RECURSIVE SkipWhitespace(_)
SkipWhitespace(lx) ==
  IF lx.currentChar # NUL /\ isspace(lx.currentChar)
    THEN ByValue(SkipWhitespace, Advance(lx))
    ELSE lx

\* std::stoi(digits, 0, 10) on a run of digits: the value, or -1 when it
\* is out of the range of int (stoi throws std::out_of_range); acc is the
\* value of the digits read so far
RECURSIVE StoIFrom(_)
StoIFrom(st) ==
  IF st.digits = <<>> THEN st.acc
  ELSE LET d == DigitValue(Head(st.digits)) IN
       ByValue(StoIFrom,
               [digits |-> Tail(st.digits),
             acc |-> IF st.acc = -1 \/ st.acc > (IntMax - d) \div 10
                       THEN -1
                       ELSE st.acc * 10 + d])
StoI(digits) == StoIFrom([digits |-> digits, acc |-> 0])

\* the while loop of Lexer::integer: advance over the run of digits
RECURSIVE ScanDigits(_)
ScanDigits(lx) ==
  IF lx.currentChar # NUL /\ isdigit(lx.currentChar)
    THEN ByValue(ScanDigits, Advance(lx))
    ELSE lx

\* variant of Integer: the substring misses the last digit of the run
IntegerShortRun(lx) ==
  LET initialPosition == lx.position IN
  ByValue(LAMBDA after :
            LET length == after.position - initialPosition IN
            [lx |-> after,
             value |-> StoI(SubSeq(lx.text, initialPosition + 1,
                                   initialPosition + length - 1))],
          ScanDigits(lx))

\* Lexer::integer: the Lexer after the run and the value of the run
Integer(lx) ==
  LET initialPosition == lx.position IN
  ByValue(LAMBDA after :
            LET length == after.position - initialPosition IN
            [lx |-> after,
             value |-> StoI(SubSeq(lx.text, initialPosition + 1,
                                   initialPosition + length))],
          ScanDigits(lx))

\* Lexer::get_next_token: the Lexer after the call, the token returned and
\* the exception thrown ("none" when the call returns)
\* variant of EndOfInput: the end of the text is consumed like a character
EndOfInputAdvancing(lx) ==
  [lx |-> Advance(lx), token |-> Token("EOFToken", 0), error |-> "none"]

\* the return after the while loop: the Lexer is left as it is
EndOfInput(lx) ==
  [lx |-> lx, token |-> Token("EOFToken", 0), error |-> "none"]

RECURSIVE GetNextToken(_)
GetNextToken(lx) ==
  IF lx.currentChar = NUL
    THEN EndOfInput(lx)
  ELSE IF isspace(lx.currentChar)
    THEN ByValue(GetNextToken, SkipWhitespace(lx))
  ELSE IF isdigit(lx.currentChar)
    THEN ByValue(LAMBDA r :
                   IF r.value = -1
                     THEN [lx |-> r.lx, token |-> NoToken,
                           error |-> "out_of_range"]
                     ELSE [lx |-> r.lx,
                           token |-> Token("IntegerToken", r.value),
                           error |-> "none"],
                 Integer(lx))
  ELSE IF lx.currentChar \in OperatorChars
    THEN [lx |-> Advance(lx),
          token |-> Token(OperatorType(lx.currentChar), 0),
          error |-> "none"]
  ELSE [lx |-> lx, token |-> NoToken, error |-> "LexicalError"]

\* variant of NewLexer: the scan offset counts from 1
NewLexerOneBased(txt) ==
  [text |-> txt, position |-> 1, currentChar |-> TextAt(txt, 0),
   lastRead |-> 0]

\* Lexer::Lexer(text)
NewLexer(txt) ==
  [text |-> txt, position |-> 0, currentChar |-> TextAt(txt, 0),
   lastRead |-> 0]

(* -------------------------------- AST ---------------------------------- *)
\* Num(token): an AST with no children
Num(token) == [token |-> token, children |-> <<>>]
\* BinaryOp(left, op, right): an AST with the children left and right
BinaryOp(left, op, right) == [token |-> op, children |-> <<left, right>>]
\* an empty std::unique_ptr<AST>
NoNode == [token |-> NoToken, children |-> <<>>]

(* ------------------------------- state --------------------------------- *)
VARIABLES
  text, position, currentChar, \* Lexer::text, position, currentChar
  lastRead,                    \* index of the latest read of text[...]
  currentToken,                \* Parser::currentToken
  stack,                       \* the active calls of parse/expr/term/factor
  ret,                         \* the node the latest returned call returned
  tree,                        \* ast_tree of main
  phase,                       \* where main is in the evaluation of the line
  outcome,                     \* how the evaluation of the line ended
  eaten,                       \* number of tokens the Lexer has returned
  calls                        \* number of direct get_next_token calls

vars == <<text, position, currentChar, lastRead, currentToken, stack, ret,
          tree, phase, outcome, eaten, calls>>

\* the state as a record, the form the operations below work on
St ==
  [text |-> text, position |-> position, currentChar |-> currentChar,
   lastRead |-> lastRead, currentToken |-> currentToken, stack |-> stack,
   ret |-> ret, tree |-> tree, phase |-> phase, outcome |-> outcome,
   eaten |-> eaten, calls |-> calls]

\* the state is the record s
Is(s) ==
  /\ text = s.text /\ position = s.position
  /\ currentChar = s.currentChar /\ lastRead = s.lastRead
  /\ currentToken = s.currentToken /\ stack = s.stack /\ ret = s.ret
  /\ tree = s.tree /\ phase = s.phase /\ outcome = s.outcome
  /\ eaten = s.eaten /\ calls = s.calls

\* the next state is the record s (evaluated once)
Becomes(s) ==
  \E t \in {s} :
    /\ text' = t.text /\ position' = t.position
    /\ currentChar' = t.currentChar /\ lastRead' = t.lastRead
    /\ currentToken' = t.currentToken /\ stack' = t.stack /\ ret' = t.ret
    /\ tree' = t.tree /\ phase' = t.phase /\ outcome' = t.outcome
    /\ eaten' = t.eaten /\ calls' = t.calls

Outcome(kind, value) == [kind |-> kind, value |-> value]
NoOutcome == Outcome("none", 0)

\* the Lexer fields of r.lx written into the state s
WithLexer(s, lx) ==
  [s EXCEPT !.position = lx.position, !.currentChar = lx.currentChar,
            !.lastRead = lx.lastRead]

\* an exception of the given kind leaves main: every active call is unwound
\* and the evaluation of the line is over.  The kinds name the exceptions:
\* "LexicalError" is runtime_error("Unknown token"), "SyntaxError" is the
\* runtime_error of eat, factor and parse, "out_of_range" is thrown by stoi.
Throw(s, kind) ==
  [s EXCEPT !.phase = "done", !.outcome = Outcome(kind, 0), !.stack = <<>>]

Failed(s) == s.phase = "done" /\ s.outcome.kind # "Value"

\* the state of main after new Lexer(input) for the line txt
Start(txt) ==
  LET lx == NewLexer(txt) IN
  [text |-> txt, position |-> lx.position, currentChar |-> lx.currentChar,
   lastRead |-> lx.lastRead, currentToken |-> NoToken, stack |-> <<>>,
   ret |-> NoNode, tree |-> NoNode, phase |-> "lexer",
   outcome |-> NoOutcome, eaten |-> 0, calls |-> 0]

(* ------------------------------- Parser -------------------------------- *)
\* lexer->get_next_token() assigned to currentToken
NextToken(s) ==
  ByValue(LAMBDA r :
            IF r.error # "none"
              THEN Throw(WithLexer(s, r.lx), r.error)
              ELSE [WithLexer(s, r.lx) EXCEPT !.currentToken = r.token,
                                              !.eaten = s.eaten + 1],
          GetNextToken(s))

\* Parser::eat
Eat(s, type) ==
  IF s.currentToken.type = type
    THEN NextToken(s)
    ELSE Throw(s, "SyntaxError")

\* the stack of active calls: the last element is the running call
Frame(pc, op, left) == [pc |-> pc, op |-> op, left |-> left]
Call(pc) == Frame(pc, NoToken, NoNode)
Top(s) == s.stack[Len(s.stack)]
Running(s, pc) ==
  s.phase = "parsing" /\ s.stack # <<>> /\ Top(s).pc = pc
Pop(stk) == SubSeq(stk, 1, Len(stk) - 1)
\* the running call becomes frame f and calls callee
Continue(stk, f, callee) == Append(Append(Pop(stk), f), Call(callee))

\* Parser::Parser: the constructor reads the first token
NewParserGuard(s) == s.phase = "lexer"
NewParserStep(s) ==
  ByValue(LAMBDA t : IF Failed(t) THEN t ELSE [t EXCEPT !.phase = "parser"],
          NextToken(s))

\* Parser::parse, entry: call expr
ParseCallGuard(s) == s.phase = "parser"
ParseCallStep(s) ==
  [s EXCEPT !.phase = "parsing", !.stack = <<Call("parse"), Call("expr")>>]

\* Parser::expr, entry: call term
ExprEnterGuard(s) == Running(s, "expr")
ExprEnterStep(s) ==
  [s EXCEPT !.stack = Continue(s.stack, Call("expr_loop"), "term")]

\* Parser::term, entry: call factor
TermEnterGuard(s) == Running(s, "term")
TermEnterStep(s) ==
  [s EXCEPT !.stack = Continue(s.stack, Call("term_loop"), "factor")]

\* Parser::factor, the IntegerToken branch
FactorIntegerGuard(s) ==
  Running(s, "factor") /\ s.currentToken.type = "IntegerToken"
FactorIntegerStep(s) ==
  LET node == Num(s.currentToken) IN
  ByValue(LAMBDA t :
            IF Failed(t) THEN t
            ELSE [t EXCEPT !.stack = Pop(s.stack), !.ret = node],
          Eat(s, "IntegerToken"))

\* Parser::factor, the LParenToken branch up to the call of expr
FactorLParenGuard(s) ==
  Running(s, "factor") /\ s.currentToken.type = "LParenToken"
FactorLParenStep(s) ==
  ByValue(LAMBDA t :
            IF Failed(t) THEN t
            ELSE [t EXCEPT !.stack =
                    Continue(s.stack, Call("factor_rparen"), "expr")],
          Eat(s, "LParenToken"))

\* Parser::factor, the LParenToken branch after expr has returned
FactorRParenGuard(s) == Running(s, "factor_rparen")
FactorRParenStep(s) ==
  ByValue(LAMBDA t : IF Failed(t) THEN t ELSE [t EXCEPT !.stack = Pop(s.stack)],
          Eat(s, "RParenToken"))

\* Parser::factor, the else branch
FactorErrorGuard(s) ==
  Running(s, "factor")
  /\ s.currentToken.type \notin {"IntegerToken", "LParenToken"}
FactorErrorStep(s) == Throw(s, "SyntaxError")

\* variant of LoopNode: the operands of the BinaryOp are exchanged
LoopNodeSwapped(s) ==
  IF Top(s).op = NoToken
    THEN s.ret
    ELSE BinaryOp(s.ret, Top(s).op, Top(s).left)

\* the node of a term or expr loop once the call it made has returned: the
\* first factor/term, or the BinaryOp of the iteration
LoopNode(s) ==
  IF Top(s).op = NoToken
    THEN s.ret
    ELSE BinaryOp(Top(s).left, Top(s).op, s.ret)

\* variant of TermLoopStep: the iteration does not eat the operator
TermLoopNoEat(s) ==
  [s EXCEPT !.stack =
     Continue(s.stack, Frame("term_loop", s.currentToken, LoopNode(s)),
              "factor")]

\* Parser::term, one iteration of the while loop up to the call of factor
TermLoopGuard(s) ==
  Running(s, "term_loop")
  /\ s.currentToken.type \in {"MultiplyToken", "DivideToken"}
TermLoopStep(s) ==
  LET node == LoopNode(s)
      op == s.currentToken
  IN ByValue(LAMBDA t :
               IF Failed(t) THEN t
               ELSE [t EXCEPT !.stack =
                       Continue(s.stack, Frame("term_loop", op, node), "factor")],
             Eat(s, op.type))

\* Parser::term, the loop ends: return node
TermReturnGuard(s) ==
  Running(s, "term_loop")
  /\ s.currentToken.type \notin {"MultiplyToken", "DivideToken"}
TermReturnStep(s) ==
  [s EXCEPT !.stack = Pop(s.stack), !.ret = LoopNode(s)]

\* Parser::expr, one iteration of the while loop up to the call of term
ExprLoopGuard(s) ==
  Running(s, "expr_loop")
  /\ s.currentToken.type \in {"PlusToken", "MinusToken"}
ExprLoopStep(s) ==
  LET node == LoopNode(s)
      op == s.currentToken
  IN ByValue(LAMBDA t :
               IF Failed(t) THEN t
               ELSE [t EXCEPT !.stack =
                       Continue(s.stack, Frame("expr_loop", op, node), "term")],
             Eat(s, op.type))

\* Parser::expr, the loop ends: return node
ExprReturnGuard(s) ==
  Running(s, "expr_loop")
  /\ s.currentToken.type \notin {"PlusToken", "MinusToken"}
ExprReturnStep(s) ==
  [s EXCEPT !.stack = Pop(s.stack), !.ret = LoopNode(s)]

\* variant of ParseReturnStep: the token after the expr is not looked at
ParseReturnNoEofCheck(s) ==
  [s EXCEPT !.phase = "parsed", !.tree = s.ret, !.stack = <<>>]

\* Parser::parse after expr has returned
ParseReturnGuard(s) == Running(s, "parse")
ParseReturnStep(s) ==
  IF s.currentToken.type # "EOFToken"
    THEN Throw(s, "SyntaxError")
    ELSE [s EXCEPT !.phase = "parsed", !.tree = s.ret, !.stack = <<>>]

(* ----------------------------- Interpreter ----------------------------- *)
\* Arithmetic of the type int.  An operation whose result the language
\* leaves undefined (signed overflow, division by zero) is "undefined";
\* the operands are values of int, and no intermediate value leaves int.
Abs(a) == IF a < 0 THEN -a ELSE a
\* (IntMax + 1) \div m for m > 0
Pow31Div(m) == (IntMax \div m) + (IF IntMax % m = m - 1 THEN 1 ELSE 0)

AddOverflows(a, b) ==
  (b > 0 /\ a > IntMax - b) \/ (b < 0 /\ a < IntMin - b)
SubOverflows(a, b) ==
  (b < 0 /\ a > IntMax + b) \/ (b > 0 /\ a < IntMin + b)
MulOverflows(a, b) ==
  IF a \in {0, 1} \/ b \in {0, 1} THEN FALSE
  ELSE IF a = IntMin \/ b = IntMin THEN TRUE
  ELSE IF (a < 0) = (b < 0) THEN Abs(a) > IntMax \div Abs(b)
  ELSE /\ Abs(a) > IntMax \div Abs(b)
       /\ ~(Abs(a) = Pow31Div(Abs(b)) /\ IntMax % Abs(b) = Abs(b) - 1)
\* a / b of C++ for b # 0 and no overflow: the quotient truncated toward 0
IntDiv(a, b) ==
  IF b = IntMin THEN (IF a = IntMin THEN 1 ELSE 0)
  ELSE LET q == IF a = IntMin THEN Pow31Div(Abs(b))
                ELSE Abs(a) \div Abs(b)
       IN IF (a < 0) = (b < 0) THEN q ELSE -q

Result(status, value) == [status |-> status, value |-> value]

\* the switch of Interpreter::visit_BinaryOp on two evaluated operands
Apply(type, a, b) ==
  CASE type = "PlusToken" ->
         IF AddOverflows(a, b) THEN Result("undefined", 0)
         ELSE Result("ok", a + b)
    [] type = "MinusToken" ->
         IF SubOverflows(a, b) THEN Result("undefined", 0)
         ELSE Result("ok", a - b)
    [] type = "MultiplyToken" ->
         IF MulOverflows(a, b) THEN Result("undefined", 0)
         ELSE Result("ok", a * b)
    [] type = "DivideToken" ->
         IF b = 0 \/ (a = IntMin /\ b = -1) THEN Result("undefined", 0)
         ELSE Result("ok", IntDiv(a, b))
    [] OTHER -> Result("InvalidNodeError", 0)

\* Interpreter::visit, visit_Num and visit_BinaryOp: the value of the node,
\* or the exception thrown, or "undefined" once an operation with undefined
\* behaviour has been executed
RECURSIVE Visit(_)
Visit(node) ==
  IF node.token.type \in {"PlusToken", "MinusToken", "MultiplyToken",
                          "DivideToken"}
    THEN IF Len(node.children) # 2 THEN Result("MalformedTreeError", 0)
         ELSE ByValue(LAMBDA first_value :
                IF first_value.status # "ok" THEN first_value
                ELSE ByValue(LAMBDA second_value :
                       IF second_value.status # "ok" THEN second_value
                       ELSE Apply(node.token.type, first_value.value,
                                  second_value.value),
                     Visit(node.children[2])),
              Visit(node.children[1]))
  ELSE IF node.token.type = "IntegerToken"
    THEN Result("ok", node.token.value)
  ELSE Result("InvalidNodeError", 0)

\* What a build does once undefined behaviour has been executed: the
\* process is killed by a signal (the division traps, SIGFPE), or it goes on
\* with a value the language does not define and prints some integer.
UndefinedOutcomes == {Outcome("Signal", 0), Outcome("Garbage", 0)}

\* Interpreter::interpret: the possible outcomes for a tree
InterpretOutcomes(node) ==
  ByValue(LAMBDA r :
            CASE r.status = "ok" -> {Outcome("Value", r.value)}
              [] r.status = "undefined" -> UndefinedOutcomes
              [] OTHER -> {Outcome(r.status, 0)},
          Visit(node))

\* main: Interpreter().interpret(*ast_tree) and the output of the result
InterpretGuard(s) == s.phase = "parsed"
InterpretStep(s, o) == [s EXCEPT !.phase = "done", !.outcome = o]

(* ------------------------ evaluate_expression -------------------------- *)
\* the step of the parser enabled in s (exactly one guard holds while the
\* line is being lexed and parsed)
ParserStep(s) ==
  CASE NewParserGuard(s) -> NewParserStep(s)
    [] ParseCallGuard(s) -> ParseCallStep(s)
    [] ExprEnterGuard(s) -> ExprEnterStep(s)
    [] TermEnterGuard(s) -> TermEnterStep(s)
    [] FactorIntegerGuard(s) -> FactorIntegerStep(s)
    [] FactorLParenGuard(s) -> FactorLParenStep(s)
    [] FactorRParenGuard(s) -> FactorRParenStep(s)
    [] FactorErrorGuard(s) -> FactorErrorStep(s)
    [] TermLoopGuard(s) -> TermLoopStep(s)
    [] TermReturnGuard(s) -> TermReturnStep(s)
    [] ExprLoopGuard(s) -> ExprLoopStep(s)
    [] ExprReturnGuard(s) -> ExprReturnStep(s)
    [] ParseReturnGuard(s) -> ParseReturnStep(s)

\* Parser(new Lexer(input)).parse() run to its end from the state s
RECURSIVE RunParser(_)
RunParser(s) ==
  IF s.phase \in {"parsed", "done"} THEN s ELSE RunParser(ParserStep(s))

\* the body of the loop of main for the line txt: the possible outcomes
EvaluateExpression(txt) ==
  LET s == RunParser(Start(txt)) IN
  IF s.phase = "done" THEN {s.outcome} ELSE InterpretOutcomes(s.tree)

(* ------------------------------- inputs -------------------------------- *)
Alphabet == {"0", "2", "7", "+", "-", "*", "/", "(", ")", " ", "#", NUL}
Digits == {"0", "2", "7"}
Operators == {"+", "-", "*", "/"}

RECURSIVE TextsOfLen(_)
TextsOfLen(n) ==
  IF n = 0 THEN {<<>>}
  ELSE {Append(t, c) : t \in TextsOfLen(n - 1), c \in Alphabet}
ShortTexts == UNION {TextsOfLen(n) : n \in 0..MaxLen}

\* a op b op c, (a op b) op c and a op (b op c)
Chains ==
  UNION {{<<a, o, b, p, c>>, <<"(", a, o, b, ")", p, c>>,
          <<a, o, "(", b, p, c, ")">>} :
         <<a, b, c, o, p>> \in
           Digits \X Digits \X Digits \X Operators \X Operators}

RECURSIVE Repeat(_, _)
Repeat(c, n) == IF n = 0 THEN <<>> ELSE <<c>> \o Repeat(c, n - 1)
\* literals: runs of one digit, and the literals around the largest int
Literals ==
  {Repeat(d, n) : d \in {"0", "2", "9"}, n \in 1..MaxDigits}
  \cup {Repeat("0", k) \o <<"2", "1", "4", "7", "4", "8", "3", "6", "4", u>>
          : k \in 0..2, u \in {"6", "7", "8", "9"}}

Examples ==
  { <<"1", "0", "/", "0">>,
    <<"1", "/", "(", "2", "-", "2", ")">>,
    <<"2", "+", "3", "*", "4">>,
    <<"(", "2", "+", "3", ")", "*", "4">>,
    <<"7", "-", "2", "-", "3">>,
    <<"2", " ", "+", " ", "3">>,
    <<" ", "\t", "2", "\n", "+", VT, "3", "\f", "\r">>,
    <<"(", "2", "+", "3">>,
    <<"1", "/", "0", ")">>,
    <<"1", "/", "0", " ", "#">>,
    <<"1", "/", "0", NUL, "#">>,
    <<"(", "(", "2", ")", ")">>,
    <<"9", "9", "9", "9", "9", "*", "9", "9", "9", "9", "9">>,
    <<"0", "-", "2", "1", "4", "7", "4", "8", "3", "6", "4", "7", "-", "2">>,
    <<"(", "0", "-", "2", "1", "4", "7", "4", "8", "3", "6", "4", "7", "-",
      "1", ")", "/", "(", "0", "-", "1", ")">> }

Texts == ShortTexts \cup Chains \cup Literals \cup Examples

(* --------------------------- specifications ---------------------------- *)
\* main before a line is read: no Lexer exists yet.  A behaviour is one
\* pass through the body of the loop of main.
Init == Is([Start(<<>>) EXCEPT !.phase = "input"])

\* main: getline(std::cin, input) and new Lexer(input)
ReadLine == phase = "input" /\ text' \in Texts /\ Becomes(Start(text'))

NewParser ==
  \E s \in {St} : NewParserGuard(s) /\ Becomes(NewParserStep(s))
ParseCall ==
  \E s \in {St} : ParseCallGuard(s) /\ Becomes(ParseCallStep(s))
ExprEnter ==
  \E s \in {St} : ExprEnterGuard(s) /\ Becomes(ExprEnterStep(s))
TermEnter ==
  \E s \in {St} : TermEnterGuard(s) /\ Becomes(TermEnterStep(s))
FactorInteger ==
  \E s \in {St} : FactorIntegerGuard(s) /\ Becomes(FactorIntegerStep(s))
FactorLParen ==
  \E s \in {St} : FactorLParenGuard(s) /\ Becomes(FactorLParenStep(s))
FactorRParen ==
  \E s \in {St} : FactorRParenGuard(s) /\ Becomes(FactorRParenStep(s))
FactorError ==
  \E s \in {St} : FactorErrorGuard(s) /\ Becomes(FactorErrorStep(s))
TermLoop ==
  \E s \in {St} : TermLoopGuard(s) /\ Becomes(TermLoopStep(s))
TermReturn ==
  \E s \in {St} : TermReturnGuard(s) /\ Becomes(TermReturnStep(s))
ExprLoop ==
  \E s \in {St} : ExprLoopGuard(s) /\ Becomes(ExprLoopStep(s))
ExprReturn ==
  \E s \in {St} : ExprReturnGuard(s) /\ Becomes(ExprReturnStep(s))
ParseReturn ==
  \E s \in {St} : ParseReturnGuard(s) /\ Becomes(ParseReturnStep(s))
Interpret ==
  \E s \in {St} :
    /\ InterpretGuard(s)
    /\ \E o \in InterpretOutcomes(s.tree) : Becomes(InterpretStep(s, o))

Next ==
  \/ ReadLine
  \/ NewParser \/ ParseCall \/ ExprEnter \/ TermEnter
  \/ FactorInteger \/ FactorLParen \/ FactorRParen \/ FactorError
  \/ TermLoop \/ TermReturn \/ ExprLoop \/ ExprReturn
  \/ ParseReturn \/ Interpret

\* the evaluation of one line by main
Spec == Init /\ [][Next]_vars
\* main runs on until the line is evaluated
FairSpec == Spec /\ WF_vars(Next)

\* a client of the Lexer calls get_next_token directly, again and again,
\* also after EOFToken and after an exception
GetNextTokenCall ==
  /\ phase = "lexer" /\ calls < MaxCalls
  /\ \E s \in {St} : \E r \in {GetNextToken(s)} :
       Becomes([WithLexer(s, r.lx) EXCEPT
                  !.currentToken = r.token,
                  !.outcome = Outcome(r.error, 0),
                  !.eaten = IF r.error = "none" THEN eaten + 1 ELSE eaten,
                  !.calls = calls + 1])

NextLexer == ReadLine \/ GetNextTokenCall
SpecLexer == Init /\ [][NextLexer]_vars

(* ======================= reference definitions ========================= *)
\* The token stream of a text: the tokens of successive get_next_token
\* calls up to EOFToken (left out) or to the first exception.
RECURSIVE LexAll(_)
LexAll(lx) ==
  LET r == GetNextToken(lx) IN
  IF r.error # "none" THEN [tokens |-> <<>>, error |-> r.error]
  ELSE IF r.token.type = "EOFToken" THEN [tokens |-> <<>>, error |-> "none"]
  ELSE LET rest == LexAll(r.lx) IN
       [tokens |-> <<r.token>> \o rest.tokens, error |-> rest.error]
TokenStream(txt) == LexAll(NewLexer(txt))

Types(toks) == [i \in 1..Len(toks) |-> toks[i].type]

\* The grammar, as a definition of its sentences:
\*   expr := term ((PLUS|MINUS) term)*     term := factor ((MUL|DIV) factor)*
\*   factor := INTEGER | LPAREN expr RPAREN
RECURSIVE IsExpr(_), IsTerm(_), IsFactor(_)
IsFactor(ts) ==
  \/ Len(ts) = 1 /\ ts[1] = "IntegerToken"
  \/ /\ Len(ts) >= 3
     /\ ts[1] = "LParenToken" /\ ts[Len(ts)] = "RParenToken"
     /\ IsExpr(SubSeq(ts, 2, Len(ts) - 1))
IsTerm(ts) ==
  \/ IsFactor(ts)
  \/ \E i \in 2..(Len(ts) - 1) :
       /\ ts[i] \in {"MultiplyToken", "DivideToken"}
       /\ IsTerm(SubSeq(ts, 1, i - 1))
       /\ IsFactor(SubSeq(ts, i + 1, Len(ts)))
IsExpr(ts) ==
  \/ IsTerm(ts)
  \/ \E i \in 2..(Len(ts) - 1) :
       /\ ts[i] \in {"PlusToken", "MinusToken"}
       /\ IsExpr(SubSeq(ts, 1, i - 1))
       /\ IsTerm(SubSeq(ts, i + 1, Len(ts)))

\* The reference reading of a sentence: split at the last + or - outside
\* parentheses, else at the last * or / outside parentheses, else it is a
\* literal or a parenthesised sentence.  Values are kept within ValueBound;
\* the reading is undefined (def = FALSE) beyond it and for a division by 0.
ValueBound == 10000

RECURSIVE Depth(_, _)
\* number of parentheses open before position i
Depth(toks, i) ==
  IF i <= 1 THEN 0
  ELSE Depth(toks, i - 1)
       + (IF toks[i - 1].type = "LParenToken" THEN 1
          ELSE IF toks[i - 1].type = "RParenToken" THEN -1 ELSE 0)
TopLevel(toks, types) ==
  {i \in 1..Len(toks) : toks[i].type \in types /\ Depth(toks, i) = 0}
Last(S) == CHOOSE i \in S : \A j \in S : j <= i

\* the quotient of a by b truncated toward zero, by its defining property
TruncatedQuotient(a, b) ==
  CHOOSE q \in -Abs(a)..Abs(a) :
    /\ Abs(q) * Abs(b) <= Abs(a)
    /\ Abs(a) - Abs(q) * Abs(b) < Abs(b)
    /\ (q > 0 => (a < 0) = (b < 0))
    /\ (q < 0 => (a < 0) # (b < 0))

Ref(def, val) == [def |-> def, val |-> val]
RefApply(type, l, r) ==
  IF ~l.def \/ ~r.def THEN Ref(FALSE, 0)
  ELSE LET v == CASE type = "PlusToken" -> Ref(TRUE, l.val + r.val)
                  [] type = "MinusToken" -> Ref(TRUE, l.val - r.val)
                  [] type = "MultiplyToken" -> Ref(TRUE, l.val * r.val)
                  [] type = "DivideToken" ->
                       IF r.val = 0 THEN Ref(FALSE, 0)
                       ELSE Ref(TRUE, TruncatedQuotient(l.val, r.val))
       IN IF v.def /\ Abs(v.val) <= ValueBound THEN v ELSE Ref(FALSE, 0)

RECURSIVE RefExpr(_), RefTerm(_), RefFactor(_)
RefFactor(toks) ==
  IF Len(toks) = 1
    THEN Ref(toks[1].value <= ValueBound, toks[1].value)
    ELSE RefExpr(SubSeq(toks, 2, Len(toks) - 1))
RefTerm(toks) ==
  LET S == TopLevel(toks, {"MultiplyToken", "DivideToken"}) IN
  IF S = {} THEN RefFactor(toks)
  ELSE RefApply(toks[Last(S)].type,
                RefTerm(SubSeq(toks, 1, Last(S) - 1)),
                RefFactor(SubSeq(toks, Last(S) + 1, Len(toks))))
RefExpr(toks) ==
  LET S == TopLevel(toks, {"PlusToken", "MinusToken"}) IN
  IF S = {} THEN RefTerm(toks)
  ELSE RefApply(toks[Last(S)].type,
                RefExpr(SubSeq(toks, 1, Last(S) - 1)),
                RefTerm(SubSeq(toks, Last(S) + 1, Len(toks))))

\* some / node of the tree has a right operand that evaluates to 0
RECURSIVE ZeroDivision(_)
ZeroDivision(node) ==
  /\ Len(node.children) = 2
  /\ \/ ZeroDivision(node.children[1])
     \/ ZeroDivision(node.children[2])
     \/ /\ node.token.type = "DivideToken"
        /\ Visit(node.children[2]) = Result("ok", 0)

\* the characters the Lexer is to recognise
Recognized(c) == isspace(c) \/ isdigit(c) \/ c \in OperatorChars

Done == phase = "done"

(* ============================== claims ================================= *)
\* C1: an evaluation whose tree has a / node with a right operand that
\* evaluates to 0 ends in the reported failure DivisionByZeroError.
C1_DivisionByZeroReported ==
  (Done /\ ZeroDivision(tree)) => outcome.kind = "DivisionByZeroError"

\* C2: when the tokens of the text are all recognised, parse returns a tree
\* exactly when the token sequence is a sentence of the grammar, and fails
\* with SyntaxError, returning no tree, in every other case.
C2_ParseAcceptsExactlyTheGrammar ==
  (phase \in {"parsed", "done"} /\ TokenStream(text).error = "none") =>
    IF IsExpr(Types(TokenStream(text).tokens))
      THEN tree # NoNode /\ outcome.kind # "SyntaxError"
      ELSE tree = NoNode /\ Done /\ outcome.kind = "SyntaxError"
\* "(2+3" has been parsed and rejected
C2_Witness ==
  /\ text = <<"(", "2", "+", "3">>
  /\ Done /\ outcome.kind = "SyntaxError" /\ eaten = 5

RECURSIVE FirstNonSpace(_, _)
FirstNonSpace(txt, p) ==
  IF p < Len(txt) /\ isspace(txt[p + 1])
    THEN FirstNonSpace(txt, p + 1)
    ELSE p
C3_UnrecognizedCharacterFails ==
  [][(/\ calls' = calls + 1
      /\ LET q == FirstNonSpace(text, position) IN
           /\ q < Len(text)
           /\ ~isdigit(text[q + 1])
           /\ text[q + 1] \notin OperatorChars)
     => (outcome'.kind = "LexicalError" /\ currentToken' = NoToken)]_vars

\* C4: once get_next_token has returned EOFToken, every later call returns
\* EOFToken and leaves the scan offset and the current character unchanged.
C4_EndOfInputIsIdempotent ==
  [][currentToken.type = "EOFToken" =>
       /\ currentToken'.type = "EOFToken"
       /\ outcome'.kind = "none"
       /\ position' = position /\ currentChar' = currentChar]_vars
\* a non-empty text has been lexed to its end and called at least twice more
C4_Witness ==
  /\ currentToken.type = "EOFToken"
  /\ Len(text) > 0 /\ position = Len(text)
  /\ eaten >= 2 /\ calls >= Len(text) + 3

\* C6, as stated: every non-empty sequence of digits, of any length,
\* evaluates to its base-10 value and never fails.
AllDigits(txt) == txt # <<>> /\ \A i \in 1..Len(txt) : isdigit(txt[i])
RECURSIVE StripZeros(_)
StripZeros(D) ==
  IF Len(D) > 1 /\ Head(D) = "0" THEN StripZeros(Tail(D)) ELSE D
\* the decimal notation of a natural number, most significant digit first
RECURSIVE DecimalOf(_)
DecimalOf(v) ==
  LET c == CHOOSE d \in {"0", "1", "2", "3", "4", "5", "6", "7", "8", "9"} :
             DigitValue(d) = v % 10
  IN IF v < 10 THEN <<c>> ELSE Append(DecimalOf(v \div 10), c)
IsValueOf(o, D) ==
  o.kind = "Value" /\ o.value >= 0 /\ DecimalOf(o.value) = StripZeros(D)
\* the digit sequence, without its leading zeros, denotes at most IntMax
FitsInt(D) ==
  LET S == StripZeros(D)
      M == DecimalOf(IntMax)
  IN \/ Len(S) < Len(M)
     \/ /\ Len(S) = Len(M)
        /\ \/ S = M
           \/ \E i \in 1..Len(S) :
                /\ DigitValue(S[i]) < DigitValue(M[i])
                /\ \A j \in 1..(i - 1) : S[j] = M[j]
C6_EveryLiteralEvaluates ==
  (Done /\ AllDigits(text)) => IsValueOf(outcome, text)
\* C6, amended: every non-empty sequence of digits that denotes a number of
\* at most 2147483647 evaluates to that number.
C6_LiteralInRangeEvaluates ==
  (Done /\ AllDigits(text) /\ FitsInt(text)) => IsValueOf(outcome, text)
\* 002147483647 has been evaluated to the largest int
C6_Witness ==
  /\ text = <<"0", "0", "2", "1", "4", "7", "4", "8", "3", "6", "4", "7">>
  /\ Done /\ outcome = Outcome("Value", IntMax)

\* C7, as stated: inserting whitespace anywhere but inside a run of digits,
\* or removing any whitespace, leaves the token stream and the outcome of
\* the evaluation unchanged.
Blanks == {" ", "\t", "\n"}
Insert(txt, i, c) == SubSeq(txt, 1, i) \o <<c>> \o SubSeq(txt, i + 1, Len(txt))
Remove(txt, i) == SubSeq(txt, 1, i - 1) \o SubSeq(txt, i + 1, Len(txt))
Insertions(txt) ==
  {Insert(txt, i, c) :
     i \in {j \in 0..Len(txt) :
              ~(j >= 1 /\ j < Len(txt)
                /\ isdigit(txt[j]) /\ isdigit(txt[j + 1]))},
     c \in Blanks}
Removals(txt) ==
  {Remove(txt, i) : i \in {j \in 1..Len(txt) : isspace(txt[j])}}
\* removals that do not join the digits of two integer literals
SeparatingRemovals(txt) ==
  {Remove(txt, i) :
     i \in {j \in 1..Len(txt) :
              /\ isspace(txt[j])
              /\ ~(j > 1 /\ j < Len(txt)
                   /\ isdigit(txt[j - 1]) /\ isdigit(txt[j + 1]))}}
SameEvaluation(v) ==
  TokenStream(v) = TokenStream(text) /\ outcome \in EvaluateExpression(v)
C7_WhitespaceInsensitive ==
  Done => \A v \in Insertions(text) \cup Removals(text) : SameEvaluation(v)
\* C7, amended: the same, but a removal must leave at least one whitespace
\* character between the digits of two adjacent integer literals.
C7_WhitespaceInsensitiveBetweenTokens ==
  Done => \A v \in Insertions(text) \cup SeparatingRemovals(text) :
            SameEvaluation(v)
\* "2 + 3" has been evaluated to 5, as "2+3" is
C7_Witness ==
  /\ text = <<"2", " ", "+", " ", "3">>
  /\ Done /\ outcome = Outcome("Value", 5)
  /\ <<"2", "+", " ", "3">> \in SeparatingRemovals(text)

\* C8: the evaluation of a line terminates; a get_next_token call that
\* returns a token other than EOFToken increases the scan offset; every
\* iteration of the term and expr loops and every factor -> expr call
\* consumes a token (or ends the evaluation with an exception).
LexerAdvances ==
  (eaten' = eaten + 1 /\ currentToken'.type # "EOFToken")
    => position' > position
LoopsConsume ==
  ((TermLoopGuard(St) \/ ExprLoopGuard(St) \/ FactorLParenGuard(St))
   /\ vars' # vars)
    => (eaten' = eaten + 1 \/ phase' = "done")
C8_PipelineTerminates ==
  <>Done /\ [][LexerAdvances /\ LoopsConsume]_vars
\* "(2+7)*2" has been evaluated: two loop iterations and a factor -> expr call
C8_Witness ==
  /\ text = <<"(", "2", "+", "7", ")", "*", "2">>
  /\ Done /\ outcome = Outcome("Value", 18) /\ eaten = 8

\* C9: the scan offset is within 0..length(text), and no read of the text
\* is at an index greater than its length.
C9_LexerInBounds ==
  /\ 0 <= position /\ position <= Len(text)
  /\ 0 <= lastRead /\ lastRead <= Len(text)
\* the Lexer is at the end of a text and has been called after a failure
C9_Witness ==
  /\ Len(text) = 3 /\ position = Len(text) - 1
  /\ outcome.kind = "LexicalError" /\ calls = MaxCalls /\ eaten >= 1

\* C10: the Interpreter runs only once the Lexer has returned EOFToken and
\* parse has returned a tree; a text with a lexical or syntax defect
\* anywhere fails with that defect, never with an evaluation outcome.
ParseFailures == {"LexicalError", "SyntaxError", "out_of_range"}
Defective(txt) ==
  \/ \E i \in 1..Len(txt) : ~Recognized(txt[i])
  \/ TokenStream(txt).error # "none"
  \/ ~IsExpr(Types(TokenStream(txt).tokens))
C10_StageOrdering ==
  /\ (phase = "parsed" \/ (Done /\ outcome.kind \notin ParseFailures))
       => (currentToken.type = "EOFToken" /\ tree # NoNode)
  /\ (Done /\ Defective(text)) => outcome.kind \in ParseFailures
====
